---- MODULE Spec2Model ----
(***************************************************************************)
(* A model of djindjo, a minimal template engine (src/djindjo.py).         *)
(*                                                                         *)
(* Strings are sequences of one-character strings.  The cursor `index` is  *)
(* 0-based as in the source, so character i of s is s[i + 1].              *)
(***************************************************************************)
EXTENDS Integers, Sequences, FiniteSets, TLC

VARIABLES
    input,             \* how the template string was put together (never changes)
    template_string,   \* Lexer.template_string / Parser.template_string
    data_dict,         \* the caller's data mapping handed to Template.render
    pc,                \* position in Template(template_string).render(data_dict)
    index,             \* Lexer.index
    tokens,            \* Lexer.tokens
    pos,               \* Parser.parse: the number of tokens the loop has taken
    nodes,             \* the node objects created so far
    stack,             \* Parser.parse: stack
    expecting,         \* Parser.parse: expecting
    error,             \* the exception that ended the call, if any
    output,            \* what Template.render returned
    context,           \* Context.stack of the render call's Context
    mappings,          \* the data mapping objects of callers that render concurrently
    calls              \* the concurrent calls of Template.render, step by step

vars ==
    <<input, template_string, data_dict, pc, index, tokens, pos, nodes, stack,
      expecting, error, output, context, mappings, calls>>

inputvars == <<input, template_string, data_dict>>

lexvars == <<index, tokens>>

parsevars == <<pos, nodes, stack, expecting>>

rendervars == <<output, context>>

callvars == <<mappings, calls>>

----------------------------------------------------------------------------
(* Characters and strings *)

SpaceChars == {" ", "\n", "\t"}

WordChars ==
    {"a", "b", "c", "d", "e", "f", "g", "h", "i", "j", "k", "l", "m", "n",
     "o", "p", "q", "r", "s", "t", "u", "v", "w", "x", "y", "z", "_", "0", "1"}

Min(a, b) == IF a <= b THEN a ELSE b

Max(a, b) == IF a >= b THEN a ELSE b

\* s[i:j] of Python, 0-based, for 0 <= i and j <= len(s)
Slice(s, i, j) == IF j <= i THEN <<>> ELSE SubSeq(s, i + 1, j)

\* s.startswith(target, i)
StartsWith(s, target, i) ==
    /\ i + Len(target) <= Len(s)
    /\ \A k \in 1..Len(target) : s[i + k] = target[k]

RECURSIVE SkipSpace(_, _)
\* the first position >= i of s (0-based) that holds no whitespace
SkipSpace(s, i) ==
    IF i < Len(s) /\ s[i + 1] \in SpaceChars THEN SkipSpace(s, i + 1) ELSE i

RECURSIVE SkipSpaceBack(_, _)
\* the least j such that s[j:i] is all whitespace
SkipSpaceBack(s, i) ==
    IF i > 0 /\ s[i] \in SpaceChars THEN SkipSpaceBack(s, i - 1) ELSE i

RECURSIVE SkipNonSpace(_, _)
SkipNonSpace(s, i) ==
    IF i < Len(s) /\ s[i + 1] \notin SpaceChars THEN SkipNonSpace(s, i + 1) ELSE i

\* str.strip()
Strip(s) ==
    LET a == SkipSpace(s, 0)
        b == SkipSpaceBack(s, Len(s))
    IN  Slice(s, a, b)

----------------------------------------------------------------------------
(* Exceptions *)

NoError == [exc |-> "none", kind |-> "", a |-> <<>>, b |-> <<>>]

TemplateError(kind, a, b) == [exc |-> "TemplateError", kind |-> kind, a |-> a, b |-> b]

IndexError == [exc |-> "IndexError", kind |-> "", a |-> <<>>, b |-> <<>>]

----------------------------------------------------------------------------
(* Token *)

Token(token_type, text) == [type |-> token_type, text |-> text]

\* Token.keyword: self.text.split()[0]; the list is empty, and the subscript
\* raises IndexError, when the text holds no non-whitespace character.
HasKeyword(token) == SkipSpace(token.text, 0) < Len(token.text)

Keyword(token) ==
    LET a == SkipSpace(token.text, 0)
    IN  Slice(token.text, a, SkipNonSpace(token.text, a))

----------------------------------------------------------------------------
(* Lexer *)

CommentOpen == <<"{", "#">>
CommentClose == <<"#", "}">>
PrintOpen == <<"{", "{">>
PrintClose == <<"}", "}">>
InstructionOpen == <<"{", "%">>
InstructionClose == <<"%", "}">>

\* Lexer.match
Match(s, target, i) == StartsWith(s, target, i)

RECURSIVE ScanTag_stops_early(_, _, _)
\* ScanTag with the loop `while index < len - 2`
ScanTag_stops_early(s, closer, i) ==
    IF i < Len(s) - 2
    THEN IF Match(s, closer, i) THEN i ELSE ScanTag_stops_early(s, closer, i + 1)
    ELSE -1

RECURSIVE ScanTag(_, _, _)
\* The loop shared by read_comment_tag, read_print_tag and
\* read_instruction_tag: `while index < len - 1`, stop where the closer
\* matches, else step by one.  The value is the position of the closer, or -1
\* when the loop ends without a match.
ScanTag(s, closer, i) ==
    IF i < Len(s) - 1
    THEN IF Match(s, closer, i) THEN i ELSE ScanTag(s, closer, i + 1)
    ELSE -1

RECURSIVE ScanText(_, _)
\* The loop of read_text: stop at the end or where a tag opener matches.
ScanText(s, i) ==
    IF i < Len(s)
    THEN IF Match(s, CommentOpen, i) \/ Match(s, PrintOpen, i)
            \/ Match(s, InstructionOpen, i)
         THEN i
         ELSE ScanText(s, i + 1)
    ELSE i

\* One iteration of the loop of Lexer.tokenize, on the lexer state
\* lx = [index, tokens, error].
LexerState(i, toks, err) == [index |-> i, tokens |-> toks, error |-> err]

\* read_comment_tag resuming on the closer's last character
read_comment_tag_resume_early(s, lx) ==
    LET close == ScanTag(s, CommentClose, lx.index + 2)
    IN  IF close < 0
        THEN LexerState(Max(lx.index + 2, Len(s) - 1), lx.tokens,
                        TemplateError("unclosed comment tag", <<>>, <<>>))
        ELSE LexerState(close + 1, lx.tokens, NoError)

read_comment_tag(s, lx) ==
    LET close == ScanTag(s, CommentClose, lx.index + 2)
    IN  IF close < 0
        THEN LexerState(Max(lx.index + 2, Len(s) - 1), lx.tokens,
                        TemplateError("unclosed comment tag", <<>>, <<>>))
        ELSE LexerState(close + 2, lx.tokens, NoError)

read_print_tag(s, lx) ==
    LET start_index == lx.index + 2
        close == ScanTag(s, PrintClose, start_index)
    IN  IF close < 0
        THEN LexerState(Max(start_index, Len(s) - 1), lx.tokens,
                        TemplateError("unclosed print tag", <<>>, <<>>))
        ELSE LexerState(close + 2,
                        Append(lx.tokens, Token("print", Strip(Slice(s, start_index, close)))),
                        NoError)

read_instruction_tag(s, lx) ==
    LET start_index == lx.index + 2
        close == ScanTag(s, InstructionClose, start_index)
    IN  IF close < 0
        THEN LexerState(Max(start_index, Len(s) - 1), lx.tokens,
                        TemplateError("unclosed instruction tag", <<>>, <<>>))
        ELSE LexerState(close + 2,
                        Append(lx.tokens, Token("instruction", Strip(Slice(s, start_index, close)))),
                        NoError)

\* read_text taking start_index after the loop
read_text_starts_late(s, lx) ==
    LET stop == ScanText(s, lx.index)
    IN  LexerState(stop, Append(lx.tokens, Token("text", Slice(s, stop, stop))), NoError)

read_text(s, lx) ==
    LET start_index == lx.index
        stop == ScanText(s, start_index)
    IN  LexerState(stop, Append(lx.tokens, Token("text", Slice(s, start_index, stop))), NoError)

LexerStep(s, lx) ==
    IF Match(s, CommentOpen, lx.index) THEN read_comment_tag(s, lx)
    ELSE IF Match(s, PrintOpen, lx.index) THEN read_print_tag(s, lx)
    ELSE IF Match(s, InstructionOpen, lx.index) THEN read_instruction_tag(s, lx)
    ELSE read_text(s, lx)

RECURSIVE LexerRun(_, _)
LexerRun(s, lx) ==
    IF lx.error = NoError /\ lx.index < Len(s) THEN LexerRun(s, LexerStep(s, lx)) ELSE lx

\* Lexer(template_string).tokenize(): the final lexer state, whose `error`
\* is the exception raised, if any, and whose `tokens` is the list returned.
Tokenize(s) == LexerRun(s, LexerState(0, <<>>, NoError))

----------------------------------------------------------------------------
(* Regular expressions of IfNode and ForNode *)

PathChars == WordChars \cup {"."}

RECURSIVE SkipIn(_, _, _)
\* the end of the maximal run of characters of `set` that starts at i
SkipIn(s, set, i) ==
    IF i < Len(s) /\ s[i + 1] \in set THEN SkipIn(s, set, i + 1) ELSE i

\* `$`: at the end of the string, or right before a newline that ends it
AtDollar(s, i) == i = Len(s) \/ (i = Len(s) - 1 /\ s[Len(s)] = "\n")

NoMatch == [ok |-> FALSE, var_name |-> <<>>, arg_string |-> <<>>]

\* IfNode.regex.match(text): ^if\s+([\w.]+)$
IfRegex(text) ==
    LET a == SkipIn(text, SpaceChars, 2)
        b == SkipIn(text, PathChars, a)
    IN  IF StartsWith(text, <<"i", "f">>, 0) /\ a > 2 /\ b > a /\ AtDollar(text, b)
        THEN [ok |-> TRUE, var_name |-> <<>>, arg_string |-> Slice(text, a, b)]
        ELSE NoMatch

\* ForNode.regex.match(text): ^for\s+(\w+)\s+in\s+([\w.]+)$
ForRegex(text) ==
    LET a == SkipIn(text, SpaceChars, 3)
        b == SkipIn(text, WordChars, a)
        c == SkipIn(text, SpaceChars, b)
        d == SkipIn(text, SpaceChars, c + 2)
        e == SkipIn(text, PathChars, d)
    IN  IF /\ StartsWith(text, <<"f", "o", "r">>, 0) /\ a > 3 /\ b > a /\ c > b
           /\ StartsWith(text, <<"i", "n">>, c) /\ d > c + 2 /\ e > d
           /\ AtDollar(text, e)
        THEN [ok |-> TRUE, var_name |-> Slice(text, a, b), arg_string |-> Slice(text, d, e)]
        ELSE NoMatch

----------------------------------------------------------------------------
(* Nodes.  The node tree is a heap: `nodes` is the sequence of the node    *)
(* objects created so far, a node is named by its position in it, and      *)
(* `children`, `true_branch` and `false_branch` hold such names (0: none). *)

NoToken == Token("none", <<>>)

NewNode(class, token) ==
    [class |-> class, token |-> token, children |-> <<>>,
     var_name |-> <<>>, arg_string |-> <<>>, true_branch |-> 0, false_branch |-> 0]

\* node.children.append(child)
AppendChild(tree, id, child) ==
    [tree EXCEPT ![id].children = Append(@, child)]

RECURSIVE ProcessChildrenFrom_ignores_else(_, _, _, _)
\* process_children that skips the else marker without changing branch
ProcessChildrenFrom_ignores_else(tree, id, k, branch) ==
    IF k > Len(tree[id].children) THEN tree
    ELSE LET child == tree[id].children[k]
         IN  IF tree[child].class = "ElseNode"
             THEN ProcessChildrenFrom_ignores_else(tree, id, k + 1, branch)
             ELSE ProcessChildrenFrom_ignores_else(AppendChild(tree, branch, child), id,
                                                   k + 1, branch)

RECURSIVE ProcessChildrenFrom_keeps_marker(_, _, _, _)
\* process_children that appends the else marker to the false branch too
ProcessChildrenFrom_keeps_marker(tree, id, k, branch) ==
    IF k > Len(tree[id].children) THEN tree
    ELSE LET child == tree[id].children[k]
         IN  IF tree[child].class = "ElseNode"
             THEN ProcessChildrenFrom_keeps_marker(
                      AppendChild(tree, tree[id].false_branch, child), id, k + 1,
                      tree[id].false_branch)
             ELSE ProcessChildrenFrom_keeps_marker(AppendChild(tree, branch, child), id,
                                                   k + 1, branch)

RECURSIVE ProcessChildrenFrom(_, _, _, _)
\* The loop of IfNode.process_children from child k on, `branch` being the
\* branch node that currently receives the children.
ProcessChildrenFrom(tree, id, k, branch) ==
    IF k > Len(tree[id].children) THEN tree
    ELSE LET child == tree[id].children[k]
         IN  IF tree[child].class = "ElseNode"
             THEN ProcessChildrenFrom(tree, id, k + 1, tree[id].false_branch)
             ELSE ProcessChildrenFrom(AppendChild(tree, branch, child), id, k + 1, branch)

\* node.process_children(): IfNode overrides it, every other class inherits
\* the empty Node.process_children.
ProcessChildren(tree, id) ==
    IF tree[id].class = "IfNode"
    THEN ProcessChildrenFrom(tree, id, 1, tree[id].true_branch)
    ELSE tree

----------------------------------------------------------------------------
(* Parser *)

KwIf == <<"i", "f">>
KwElse == <<"e", "l", "s", "e">>
KwFor == <<"f", "o", "r">>
KwEndif == <<"e", "n", "d", "i", "f">>
KwEndfor == <<"e", "n", "d", "f", "o", "r">>

\* Parser.keywords
Keywords == {KwIf, KwElse, KwFor}

NodeClass(keyword) ==
    IF keyword = KwIf THEN "IfNode" ELSE IF keyword = KwFor THEN "ForNode" ELSE "ElseNode"

Endword(keyword) ==
    IF keyword = KwIf THEN KwEndif ELSE IF keyword = KwFor THEN KwEndfor ELSE <<>>

\* Parser.endwords
Endwords == {KwEndif, KwEndfor}

ParserState(tree, layers, expect, err) ==
    [nodes |-> tree, stack |-> layers, expecting |-> expect, error |-> err]

\* stack = [Node()]; expecting = []
ParserInit == ParserState(<<NewNode("Node", NoToken)>>, <<1>>, <<>>, NoError)

Top(seq) == seq[Len(seq)]

Pop(seq) == SubSeq(seq, 1, Len(seq) - 1)

\* AddLeaf appending to stack[0], the root
AddLeaf_appends_to_root(ps, class, token) ==
    LET id == Len(ps.nodes) + 1
    IN  [ps EXCEPT !.nodes = AppendChild(Append(ps.nodes, NewNode(class, token)),
                                         ps.stack[1], id)]

\* stack[-1].children.append(<a new childless node of class `class`>)
AddLeaf(ps, class, token) ==
    LET id == Len(ps.nodes) + 1
    IN  [ps EXCEPT !.nodes = AppendChild(Append(ps.nodes, NewNode(class, token)),
                                         Top(ps.stack), id)]

\* node = IfNode(token), appended to stack[-1] and pushed
OpenIf(ps, token) ==
    LET m == IfRegex(token.text)
        id == Len(ps.nodes) + 1
        node == [NewNode("IfNode", token) EXCEPT !.arg_string = m.arg_string,
                                                 !.true_branch = id + 1,
                                                 !.false_branch = id + 2]
        heap == ps.nodes \o <<node, NewNode("Node", NoToken), NewNode("Node", NoToken)>>
    IN  IF ~m.ok
        THEN [ps EXCEPT !.nodes = Append(ps.nodes, NewNode("IfNode", token)),
                        !.error = TemplateError("malformed {% if %} tag", <<>>, <<>>)]
        ELSE [ps EXCEPT !.nodes = AppendChild(heap, Top(ps.stack), id),
                        !.stack = Append(ps.stack, id),
                        !.expecting = Append(ps.expecting, KwEndif)]

\* node = ForNode(token), appended to stack[-1] and pushed
OpenFor(ps, token) ==
    LET m == ForRegex(token.text)
        id == Len(ps.nodes) + 1
        node == [NewNode("ForNode", token) EXCEPT !.var_name = m.var_name,
                                                  !.arg_string = m.arg_string]
    IN  IF ~m.ok
        THEN [ps EXCEPT !.nodes = Append(ps.nodes, NewNode("ForNode", token)),
                        !.error = TemplateError("malformed {% for %} tag", <<>>, <<>>)]
        ELSE [ps EXCEPT !.nodes = AppendChild(Append(ps.nodes, node), Top(ps.stack), id),
                        !.stack = Append(ps.stack, id),
                        !.expecting = Append(ps.expecting, KwEndfor)]

\* CloseBlock comparing the end word with expecting[0], the outermost block's
CloseBlock_checks_outermost(ps, keyword) ==
    IF Len(ps.expecting) = 0
    THEN [ps EXCEPT !.error = TemplateError("unexpected", keyword, <<>>)]
    ELSE IF ps.expecting[1] # keyword
    THEN [ps EXCEPT !.error = TemplateError("expected, found", Top(ps.expecting), keyword)]
    ELSE [ps EXCEPT !.nodes = ProcessChildren(ps.nodes, Top(ps.stack)),
                    !.stack = Pop(ps.stack),
                    !.expecting = Pop(ps.expecting)]

\* the branch of Parser.parse for an end word
CloseBlock(ps, keyword) ==
    IF Len(ps.expecting) = 0
    THEN [ps EXCEPT !.error = TemplateError("unexpected", keyword, <<>>)]
    ELSE IF Top(ps.expecting) # keyword
    THEN [ps EXCEPT !.error = TemplateError("expected, found", Top(ps.expecting), keyword)]
    ELSE [ps EXCEPT !.nodes = ProcessChildren(ps.nodes, Top(ps.stack)),
                    !.stack = Pop(ps.stack),
                    !.expecting = Pop(ps.expecting)]

\* The body of the loop of Parser.parse for one token.
ParserStep(ps, token) ==
    IF token.type = "text" THEN AddLeaf(ps, "TextNode", token)
    ELSE IF token.type = "print" THEN AddLeaf(ps, "PrintNode", token)
    ELSE IF ~HasKeyword(token) THEN [ps EXCEPT !.error = IndexError]
    ELSE IF Keyword(token) = KwIf THEN OpenIf(ps, token)
    ELSE IF Keyword(token) = KwFor THEN OpenFor(ps, token)
    ELSE IF Keyword(token) = KwElse THEN AddLeaf(ps, "ElseNode", token)
    ELSE IF Keyword(token) \in Endwords THEN CloseBlock(ps, Keyword(token))
    ELSE [ps EXCEPT !.error = TemplateError("illegal instruction", Keyword(token), <<>>)]

\* What follows the loop of Parser.parse: the check of `expecting`; the node
\* returned is stack.pop().
ParserFinish(ps) ==
    IF Len(ps.expecting) > 0
    THEN [ps EXCEPT !.error = TemplateError("expecting", Top(ps.expecting), <<>>)]
    ELSE ps

RECURSIVE ParserRun(_, _, _)
ParserRun(ps, toks, k) ==
    IF ps.error # NoError THEN ps
    ELSE IF k > Len(toks) THEN ParserFinish(ps)
    ELSE ParserRun(ParserStep(ps, toks[k]), toks, k + 1)

\* Parser(template_string).parse(): the final parser state; on success the
\* root node is Top(stack), which is node 1.
Parse(s) ==
    LET lx == Tokenize(s)
    IN  IF lx.error # NoError
        THEN [ParserInit EXCEPT !.error = lx.error]
        ELSE ParserRun(ParserInit, lx.tokens, 1)

----------------------------------------------------------------------------
(* Values.  A Python value is a record [t, v]: its type and its content.   *)
(* A dict is the sequence of its [k, v] items in insertion order.  Four    *)
(* kinds of value are references into the Context that is rendering:       *)
(*   "context"  the Context object itself (the start of every lookup),     *)
(*   "stack"    the list Context.stack,                                    *)
(*   "layer"    the dict at position v (0-based) of Context.stack,         *)
(*   "method"   a bound method of the Context, named by v.                 *)
(* Only the attributes that src/ or the caller's objects define are        *)
(* modelled; those every Python object carries (__class__, str.upper,      *)
(* dict.keys, ...) are not.                                                *)

VNone == [t |-> "none", v |-> 0]
VBool(b) == [t |-> "bool", v |-> b]
VInt(n) == [t |-> "int", v |-> n]
VStr(s) == [t |-> "str", v |-> s]
VList(items) == [t |-> "list", v |-> items]
VDict(items) == [t |-> "dict", v |-> items]
VObject(attrs) == [t |-> "object", v |-> attrs]
VContext == [t |-> "context", v |-> 0]
VStack == [t |-> "stack", v |-> 0]
VLayer(i) == [t |-> "layer", v |-> i]
VMethod(name) == [t |-> "method", v |-> name]

Item(k, v) == [k |-> k, v |-> v]

\* key in d
DictHas(d, key) == \E i \in 1..Len(d) : d[i].k = key

\* d[key], for a key in d
DictGet(d, key) == d[CHOOSE i \in 1..Len(d) : d[i].k = key].v

\* d[key] = value
DictSet(d, key, value) ==
    IF DictHas(d, key)
    THEN [i \in 1..Len(d) |-> IF d[i].k = key THEN Item(key, value) ELSE d[i]]
    ELSE Append(d, Item(key, value))

----------------------------------------------------------------------------
(* Context.  `stack` is Context.stack: a sequence of dicts whose first     *)
(* element is the caller's data mapping (the same object, not a copy).     *)

\* Context.__init__
ContextInit(data) == <<data>>

\* Context.push
ContextPush(layers) == Append(layers, <<>>)

\* pop that leaves the stack as it is
ContextPop_keeps_layer(seq) == seq

\* Context.pop
ContextPop(seq) == SubSeq(seq, 1, Len(seq) - 1)

\* __setitem__ that writes self.stack[0]
ContextSetItem_binds_outermost(layers, key, value) ==
    [layers EXCEPT ![1] = DictSet(layers[1], key, value)]

\* Context.__setitem__
ContextSetItem(layers, key, value) ==
    [layers EXCEPT ![Len(layers)] = DictSet(@, key, value)]

Found(value) == [ok |-> TRUE, value |-> value]

Missing == [ok |-> FALSE, value |-> VNone]

RECURSIVE ContextGetItemFrom(_, _, _)
\* The loop of Context.__getitem__ over reversed(self.stack), from layer k
\* (1-based) down; Missing stands for the KeyError.
ContextGetItemFrom(layers, key, k) ==
    IF k = 0 THEN Missing
    ELSE IF DictHas(layers[k], key) THEN Found(DictGet(layers[k], key))
    ELSE ContextGetItemFrom(layers, key, k - 1)

\* Context.__getitem__
ContextGetItem(layers, key) == ContextGetItemFrom(layers, key, Len(layers))

\* The names class Context defines: its methods, and the instance attribute
\* `stack` that __init__ sets.
AttrStack == <<"s", "t", "a", "c", "k">>

ContextMethods ==
    {<<"_", "_", "i", "n", "i", "t", "_", "_">>,
     <<"_", "_", "s", "e", "t", "i", "t", "e", "m", "_", "_">>,
     <<"_", "_", "g", "e", "t", "i", "t", "e", "m", "_", "_">>,
     <<"p", "u", "s", "h">>,
     <<"p", "o", "p">>,
     <<"l", "o", "o", "k", "u", "p">>}

\* result[token] in Context.lookup; Missing stands for any exception
Subscript(layers, result, token) ==
    IF result.t = "context" THEN ContextGetItem(layers, token)
    ELSE IF result.t = "dict"
    THEN IF DictHas(result.v, token) THEN Found(DictGet(result.v, token)) ELSE Missing
    ELSE IF result.t = "layer"
    THEN IF DictHas(layers[result.v + 1], token)
         THEN Found(DictGet(layers[result.v + 1], token))
         ELSE Missing
    ELSE Missing

\* getattr(result, token) in Context.lookup; Missing stands for any exception
GetAttr(layers, result, token) ==
    IF result.t = "context"
    THEN IF token = AttrStack THEN Found(VStack)
         ELSE IF token \in ContextMethods THEN Found(VMethod(token))
         ELSE Missing
    ELSE IF result.t = "object"
    THEN IF DictHas(result.v, token) THEN Found(DictGet(result.v, token)) ELSE Missing
    ELSE Missing

RECURSIVE SplitFrom(_, _, _)
\* keystring.split('.'): the segments of s from position i on, `start`
\* being where the current segment began
SplitFrom(s, start, i) ==
    IF i >= Len(s) THEN <<Slice(s, start, Len(s))>>
    ELSE IF s[i + 1] = "." THEN <<Slice(s, start, i)>> \o SplitFrom(s, i + 1, i + 1)
    ELSE SplitFrom(s, start, i + 1)

Split(s) == SplitFrom(s, 0, 0)

\* One round of the loop of Context.lookup: the new `result`, and whether
\* the loop goes on (`ok`) or breaks with None.
LookupToken(layers, result, token) ==
    LET byKey == Subscript(layers, result, token)
    IN  IF byKey.ok THEN byKey ELSE GetAttr(layers, result, token)

RECURSIVE LookupFrom(_, _, _, _)
LookupFrom(layers, result, segs, k) ==
    IF k > Len(segs) THEN result
    ELSE LET r == LookupToken(layers, result, segs[k])
         IN  IF r.ok THEN LookupFrom(layers, r.value, segs, k + 1) ELSE VNone

\* Context.lookup
Lookup(layers, keystring) == LookupFrom(layers, VContext, Split(keystring), 1)

----------------------------------------------------------------------------
(* Truth, iteration and str() of values *)

\* bool(value), as `if value:` tests it
Truthy(layers, value) ==
    IF value.t = "none" THEN FALSE
    ELSE IF value.t = "bool" THEN value.v
    ELSE IF value.t = "int" THEN value.v # 0
    ELSE IF value.t \in {"str", "list", "dict"} THEN Len(value.v) > 0
    ELSE IF value.t = "stack" THEN Len(layers) > 0
    ELSE IF value.t = "layer" THEN Len(layers[value.v + 1]) > 0
    ELSE TRUE

\* an iteration test that takes lists alone
HasIter_lists_only(value) == value.t = "list"

\* hasattr(value, '__iter__')
HasIter(value) == value.t \in {"str", "list", "dict", "stack", "layer"}

\* The number of items the iterator of `collection` sees now.  The iterator
\* of a list reads the list's current length at every step, so a list that
\* grows while it is iterated yields the items added.
IterLen(layers, collection) ==
    IF collection.t = "stack" THEN Len(layers)
    ELSE IF collection.t = "layer" THEN Len(layers[collection.v + 1])
    ELSE Len(collection.v)

\* item number i (0-based) of the iteration: the characters of a str, the
\* elements of a list, the keys of a dict
IterItem(layers, collection, i) ==
    IF collection.t = "str" THEN VStr(<<collection.v[i + 1]>>)
    ELSE IF collection.t = "list" THEN collection.v[i + 1]
    ELSE IF collection.t = "dict" THEN VStr(collection.v[i + 1].k)
    ELSE IF collection.t = "stack" THEN VLayer(i)
    ELSE VStr(layers[collection.v + 1][i + 1].k)

Digit(n) == <<"0", "1", "2", "3", "4", "5", "6", "7", "8", "9">>[n + 1]

RECURSIVE Digits(_)
Digits(n) == IF n < 10 THEN <<Digit(n)>> ELSE Append(Digits(n \div 10), Digit(n % 10))

RECURSIVE Repr(_, _, _)
RECURSIVE ReprItems(_, _, _, _, _)
\* repr(value).  `active` holds the containers of the Context whose repr is
\* under way: Python writes [...] or {...} for a list or dict met again
\* inside its own repr.  The text Python gives an object or a bound method
\* holds an address; it is one opaque character here.
Repr(layers, value, active) ==
    IF value.t = "none" THEN <<"N", "o", "n", "e">>
    ELSE IF value.t = "bool"
    THEN IF value.v THEN <<"T", "r", "u", "e">> ELSE <<"F", "a", "l", "s", "e">>
    ELSE IF value.t = "int" THEN Digits(value.v)
    ELSE IF value.t = "str" THEN <<"'">> \o value.v \o <<"'">>
    ELSE IF value.t = "list"
    THEN <<"[">> \o ReprItems(layers, value.v, 1, FALSE, active) \o <<"]">>
    ELSE IF value.t = "dict"
    THEN <<"{">> \o ReprItems(layers, value.v, 1, TRUE, active) \o <<"}">>
    ELSE IF value.t = "stack"
    THEN IF value \in active THEN <<"[", ".", ".", ".", "]">>
         ELSE <<"[">>
              \o ReprItems(layers, [i \in 1..Len(layers) |-> VLayer(i - 1)], 1, FALSE,
                           active \cup {value})
              \o <<"]">>
    ELSE IF value.t = "layer"
    THEN IF value \in active THEN <<"{", ".", ".", ".", "}">>
         ELSE <<"{">>
              \o ReprItems(layers, layers[value.v + 1], 1, TRUE, active \cup {value})
              \o <<"}">>
    ELSE <<"<" \o value.t \o ">">>

ReprItems(layers, items, k, keyed, active) ==
    IF k > Len(items) THEN <<>>
    ELSE (IF k > 1 THEN <<",", " ">> ELSE <<>>)
         \o (IF keyed
             THEN Repr(layers, VStr(items[k].k), active) \o <<":", " ">>
                  \o Repr(layers, items[k].v, active)
             ELSE Repr(layers, items[k], active))
         \o ReprItems(layers, items, k + 1, keyed, active)

\* str(value)
Str(layers, value) == IF value.t = "str" THEN value.v ELSE Repr(layers, value, {})

----------------------------------------------------------------------------
(* Rendering.  A render call returns its output and leaves the Context's   *)
(* stack changed or not: both are in the result, [out, stack].             *)

Rendered(out, layers) == [out |-> out, stack |-> layers]

RECURSIVE Render(_, _, _)
RECURSIVE RenderChildren(_, _, _, _, _)
RECURSIVE ForLoop(_, _, _, _, _, _)

\* "".join(child.render(context) for child in children), from child k on,
\* `out` being what the children before k gave
RenderChildren(tree, children, k, layers, out) ==
    IF k > Len(children) THEN Rendered(out, layers)
    ELSE LET r == Render(tree, children[k], layers)
         IN  RenderChildren(tree, children, k + 1, r.stack, out \o r.out)

\* PrintNode.render
PrintNodeRender(tree, id, layers) ==
    LET value == Lookup(layers, tree[id].token.text)
    IN  Rendered(IF value.t = "none" THEN <<>> ELSE Str(layers, value), layers)

\* IfNode.render
IfNodeRender(tree, id, layers) ==
    LET value == Lookup(layers, tree[id].arg_string)
    IN  IF Truthy(layers, value)
        THEN Render(tree, tree[id].true_branch, layers)
        ELSE Render(tree, tree[id].false_branch, layers)

\* The loop `for item in collection` of ForNode.render from item i on
ForLoop(tree, id, collection, i, layers, out) ==
    IF i >= IterLen(layers, collection) THEN Rendered(out, layers)
    ELSE LET bound == ContextSetItem(layers, tree[id].var_name,
                                     IterItem(layers, collection, i))
             r == RenderChildren(tree, tree[id].children, 1, bound, <<>>)
         IN  ForLoop(tree, id, collection, i + 1, r.stack, out \o r.out)

\* ForNode.render
ForNodeRender(tree, id, layers) ==
    LET collection == Lookup(layers, tree[id].arg_string)
    IN  IF HasIter(collection)
        THEN LET r == ForLoop(tree, id, collection, 0, ContextPush(layers), <<>>)
             IN  Rendered(r.out, ContextPop(r.stack))
        ELSE Rendered(<<>>, layers)

\* node.render(context), by the class of the node; Node and ElseNode have
\* Node.render
Render(tree, id, layers) ==
    IF tree[id].class = "TextNode" THEN Rendered(tree[id].token.text, layers)
    ELSE IF tree[id].class = "PrintNode" THEN PrintNodeRender(tree, id, layers)
    ELSE IF tree[id].class = "IfNode" THEN IfNodeRender(tree, id, layers)
    ELSE IF tree[id].class = "ForNode" THEN ForNodeRender(tree, id, layers)
    ELSE RenderChildren(tree, tree[id].children, 1, layers, <<>>)

\* Template.render(data_dict) of the template whose node heap is `nodes`
\* and whose root_node is node 1
TemplateRender(tree, data) == Render(tree, 1, ContextInit(data))

----------------------------------------------------------------------------
(* Template(template_string).render(data_dict), step by step:               *)
(*   pc = "tokenize"  in the loop of Lexer.tokenize                         *)
(*   pc = "parse"     in the loop of Parser.parse                           *)
(*   pc = "compiled"  Template.__init__ has returned                        *)
(*   pc = "done"      Template.render has returned                          *)
(*   pc = "failed"    an exception has ended the call                       *)

lexer == LexerState(index, tokens, error)

parser == ParserState(nodes, stack, expecting, error)

SetLexer(lx) ==
    /\ index' = lx.index
    /\ tokens' = lx.tokens
    /\ error' = lx.error
    /\ pc' = IF lx.error = NoError THEN "tokenize" ELSE "failed"
    /\ UNCHANGED <<inputvars, parsevars, rendervars, callvars>>

ReadCommentTag ==
    /\ pc = "tokenize"
    /\ index < Len(template_string)
    /\ Match(template_string, CommentOpen, index)
    /\ SetLexer(read_comment_tag(template_string, lexer))

ReadPrintTag ==
    /\ pc = "tokenize"
    /\ index < Len(template_string)
    /\ ~Match(template_string, CommentOpen, index)
    /\ Match(template_string, PrintOpen, index)
    /\ SetLexer(read_print_tag(template_string, lexer))

ReadInstructionTag ==
    /\ pc = "tokenize"
    /\ index < Len(template_string)
    /\ ~Match(template_string, CommentOpen, index)
    /\ ~Match(template_string, PrintOpen, index)
    /\ Match(template_string, InstructionOpen, index)
    /\ SetLexer(read_instruction_tag(template_string, lexer))

ReadText ==
    /\ pc = "tokenize"
    /\ index < Len(template_string)
    /\ ~Match(template_string, CommentOpen, index)
    /\ ~Match(template_string, PrintOpen, index)
    /\ ~Match(template_string, InstructionOpen, index)
    /\ SetLexer(read_text(template_string, lexer))

\* tokenize returns self.tokens; Parser.parse starts its loop over them
TokenizeReturn ==
    /\ pc = "tokenize"
    /\ index >= Len(template_string)
    /\ pc' = "parse"
    /\ UNCHANGED <<inputvars, lexvars, parsevars, error, rendervars, callvars>>

SetParser(ps, next) ==
    /\ nodes' = ps.nodes
    /\ stack' = ps.stack
    /\ expecting' = ps.expecting
    /\ error' = ps.error
    /\ pc' = IF ps.error = NoError THEN next ELSE "failed"

\* one round of the loop of Parser.parse
ParseToken ==
    /\ pc = "parse"
    /\ pos < Len(tokens)
    /\ pos' = pos + 1
    /\ SetParser(ParserStep(parser, tokens[pos + 1]), "parse")
    /\ UNCHANGED <<inputvars, lexvars, rendervars, callvars>>

\* the end of Parser.parse, and of Template.__init__
ParseReturn ==
    /\ pc = "parse"
    /\ pos >= Len(tokens)
    /\ SetParser(ParserFinish(parser), "compiled")
    /\ UNCHANGED <<inputvars, lexvars, pos, rendervars, callvars>>

\* Template.__init__ as one step
Compile ==
    /\ pc = "start"
    /\ LET lx == Tokenize(template_string)
           ps == Parse(template_string)
       IN  /\ index' = lx.index
           /\ tokens' = lx.tokens
           /\ pos' = IF lx.error = NoError THEN Len(lx.tokens) ELSE 0
           /\ SetParser(ps, "compiled")
    /\ UNCHANGED <<inputvars, rendervars, callvars>>

\* The addresses the Context of a render call may be allocated at
Addresses == {1, 2}

\* The text of `out` when the Context is at `address`: the repr of a bound
\* method of the Context holds the Context's address.
AtAddress(out, address) ==
    [i \in 1..Len(out) |->
        IF out[i] = "<method>" THEN "<method at " \o Digit(address) \o ">" ELSE out[i]]

\* Template.render
TemplateRenderCall ==
    /\ pc = "compiled"
    /\ \E address \in Addresses :
         LET r == TemplateRender(nodes, data_dict)
         IN  /\ output' = AtAddress(r.out, address)
             /\ context' = r.stack
    /\ pc' = "done"
    /\ UNCHANGED <<inputvars, lexvars, parsevars, error, callvars>>

----------------------------------------------------------------------------
(* Concurrent calls of Template.render on the compiled template, step by    *)
(* step.  Each call has its own Context; Context.stack[0] is the caller's   *)
(* mapping object mappings[arg], which two calls may share, and `layers`    *)
(* is the rest of Context.stack.  `frames` is the call stack of render      *)
(* methods under way:                                                      *)
(*   "render"    about to run node.render(context) of node id,             *)
(*   "children"  in the generator over the children of node id, at child k,*)
(*   "for_push"  ForNode.render of node id, before context.push(),         *)
(*   "for_iter"  in its loop, k items taken so far.                        *)
(* `size` of a ForNode.render frame is the number of items its collection   *)
(* had when Context.lookup returned it.                                    *)
(* `lookup` records the last call of Context.lookup: the stack it ran on,  *)
(* its argument and its result; `inside` records whether another call was  *)
(* in the loop of a ForNode.render when this call began.                   *)

Frame(op, id, k, collection) ==
    [op |-> op, id |-> id, k |-> k, collection |-> collection, size |-> 0]

NoLookup == [stack |-> <<>>, keystring |-> <<>>, value |-> VNone, made |-> FALSE]

IdleCall(arg) ==
    [arg |-> arg, state |-> "idle", layers |-> <<>>, frames |-> <<>>, out |-> <<>>,
     lookup |-> NoLookup, inside |-> FALSE]

\* Context.stack of call r
StackOf(r) == <<mappings[calls[r].arg]>> \o calls[r].layers

TopFrame(r) == Top(calls[r].frames)

Running(r, op) ==
    /\ pc = "compiled"
    /\ r \in 1..Len(calls)
    /\ calls[r].state = "running"
    /\ calls[r].frames # <<>>
    /\ TopFrame(r).op = op

\* the call's frames with the top frame replaced by `put`
Replace(r, put) == Pop(calls[r].frames) \o put

LookupMade(r, keystring) ==
    [stack |-> StackOf(r), keystring |-> keystring,
     value |-> Lookup(StackOf(r), keystring), made |-> TRUE]

\* whether call r is in the loop of a ForNode.render, its layer pushed
InLoop(r) ==
    \E k \in 1..Len(calls[r].frames) : calls[r].frames[k].op = "for_iter"

\* Template.render: Context(data_dict), then root_node.render
CallRender(r) ==
    /\ pc = "compiled"
    /\ calls[r].state = "idle"
    /\ calls' = [calls EXCEPT ![r].state = "running",
                              ![r].layers = Tail(ContextInit(mappings[calls[r].arg])),
                              ![r].frames = <<Frame("render", 1, 0, VNone)>>,
                              ![r].inside = \E o \in 1..Len(calls) : InLoop(o)]
    /\ UNCHANGED <<inputvars, pc, lexvars, parsevars, error, rendervars, mappings>>

\* TextNode.render
StepText(r) ==
    /\ Running(r, "render")
    /\ nodes[TopFrame(r).id].class = "TextNode"
    /\ calls' = [calls EXCEPT ![r].out = @ \o nodes[TopFrame(r).id].token.text,
                              ![r].frames = Pop(@)]
    /\ UNCHANGED <<inputvars, pc, lexvars, parsevars, error, rendervars, mappings>>

\* PrintNode.render
StepPrint(r) ==
    /\ Running(r, "render")
    /\ nodes[TopFrame(r).id].class = "PrintNode"
    /\ LET made == LookupMade(r, nodes[TopFrame(r).id].token.text)
       IN  calls' = [calls EXCEPT ![r].lookup = made,
                                  ![r].out = @ \o (IF made.value.t = "none" THEN <<>>
                                                   ELSE Str(StackOf(r), made.value)),
                                  ![r].frames = Pop(@)]
    /\ UNCHANGED <<inputvars, pc, lexvars, parsevars, error, rendervars, mappings>>

\* IfNode.render, up to the call of the branch's render
StepIf(r) ==
    /\ Running(r, "render")
    /\ nodes[TopFrame(r).id].class = "IfNode"
    /\ LET node == nodes[TopFrame(r).id]
           made == LookupMade(r, node.arg_string)
           branch == IF Truthy(StackOf(r), made.value) THEN node.true_branch
                     ELSE node.false_branch
       IN  calls' = [calls EXCEPT ![r].lookup = made,
                                  ![r].frames = Replace(r, <<Frame("render", branch, 0, VNone)>>)]
    /\ UNCHANGED <<inputvars, pc, lexvars, parsevars, error, rendervars, mappings>>

\* Node.render, which Node and ElseNode have: the generator starts
StepNode(r) ==
    /\ Running(r, "render")
    /\ nodes[TopFrame(r).id].class \in {"Node", "ElseNode"}
    /\ calls' = [calls EXCEPT
                   ![r].frames = Replace(r, <<Frame("children", TopFrame(r).id, 0, VNone)>>)]
    /\ UNCHANGED <<inputvars, pc, lexvars, parsevars, error, rendervars, mappings>>

\* the generator over children: call the next child's render, or end
StepChild(r) ==
    /\ Running(r, "children")
    /\ LET f == TopFrame(r)
           children == nodes[f.id].children
       IN  calls' = [calls EXCEPT
                       ![r].frames =
                           IF f.k < Len(children)
                           THEN Replace(r, <<[f EXCEPT !.k = f.k + 1],
                                             Frame("render", children[f.k + 1], 0, VNone)>>)
                           ELSE Pop(calls[r].frames)]
    /\ UNCHANGED <<inputvars, pc, lexvars, parsevars, error, rendervars, mappings>>

\* ForNode.render, up to the test of hasattr(collection, '__iter__')
StepFor(r) ==
    /\ Running(r, "render")
    /\ nodes[TopFrame(r).id].class = "ForNode"
    /\ LET made == LookupMade(r, nodes[TopFrame(r).id].arg_string)
       IN  calls' = [calls EXCEPT
                       ![r].lookup = made,
                       ![r].frames =
                           IF HasIter(made.value)
                           THEN Replace(r, <<[Frame("for_push", TopFrame(r).id, 0, made.value)
                                                EXCEPT !.size = IterLen(StackOf(r), made.value)]>>)
                           ELSE Pop(calls[r].frames)]
    /\ UNCHANGED <<inputvars, pc, lexvars, parsevars, error, rendervars, mappings>>

\* the Context.stack of call r becomes `layers`: its first element is the
\* caller's mapping object, the rest is the call's own
SetStack(r, layers, frames) ==
    /\ mappings' = [mappings EXCEPT ![calls[r].arg] = Head(layers)]
    /\ calls' = [calls EXCEPT ![r].layers = Tail(layers), ![r].frames = frames]

\* context.push() of ForNode.render
StepPush(r) ==
    /\ Running(r, "for_push")
    /\ SetStack(r, ContextPush(StackOf(r)),
                Replace(r, <<[TopFrame(r) EXCEPT !.op = "for_iter"]>>))
    /\ UNCHANGED <<inputvars, pc, lexvars, parsevars, error, rendervars>>

\* `for item in collection` has a next item: context[self.var_name] = item,
\* and the generator over the body starts
StepBind(r) ==
    /\ Running(r, "for_iter")
    /\ TopFrame(r).k < IterLen(StackOf(r), TopFrame(r).collection)
    /\ LET f == TopFrame(r)
       IN  SetStack(r, ContextSetItem(StackOf(r), nodes[f.id].var_name,
                                      IterItem(StackOf(r), f.collection, f.k)),
                    Replace(r, <<[f EXCEPT !.k = f.k + 1],
                                 Frame("children", f.id, 0, VNone)>>))
    /\ UNCHANGED <<inputvars, pc, lexvars, parsevars, error, rendervars>>

\* `for item in collection` is exhausted: context.pop(), and return
StepPop(r) ==
    /\ Running(r, "for_iter")
    /\ TopFrame(r).k >= IterLen(StackOf(r), TopFrame(r).collection)
    /\ SetStack(r, ContextPop(StackOf(r)), Pop(calls[r].frames))
    /\ UNCHANGED <<inputvars, pc, lexvars, parsevars, error, rendervars>>

\* root_node.render has returned: Template.render returns
ReturnRender(r) ==
    /\ pc = "compiled"
    /\ calls[r].state = "running"
    /\ calls[r].frames = <<>>
    /\ calls' = [calls EXCEPT ![r].state = "returned"]
    /\ UNCHANGED <<inputvars, pc, lexvars, parsevars, error, rendervars, mappings>>

----------------------------------------------------------------------------
(* Inputs *)

RECURSIVE Concat(_)
\* the concatenation of a sequence of strings
Concat(parts) == IF parts = <<>> THEN <<>> ELSE Head(parts) \o Concat(Tail(parts))

SeqsUpTo(set, n) == UNION {[1..k -> set] : k \in 0..n}

Names ==
    [x |-> <<"x">>, l |-> <<"l">>, v |-> <<"v">>, d |-> <<"d">>, k |-> <<"k">>]

\* The caller's data mappings the model renders against.
DataSet ==
    { <<>>,
      <<Item(Names.x, VInt(1)), Item(Names.l, VList(<<VInt(1), VInt(0)>>)),
        Item(Names.v, VStr(<<"q">>))>>,
      <<Item(Names.x, VInt(0)), Item(Names.l, VStr(<<"a", "b">>)),
        Item(Names.d, VDict(<<Item(Names.k, VBool(TRUE))>>))>>,
      <<Item(Names.l, VList(<<>>)), Item(Names.x, VObject(<<Item(Names.k, VStr(<<"o">>))>>)),
        Item(Names.d, VDict(<<Item(Names.x, VNone)>>))>>,
      <<Item(Names.l, VInt(7)), Item(Names.x, VList(<<VStr(<<"a">>)>>)),
        Item(Names.v, VBool(FALSE))>> }

Fresh(in, s, data, at) ==
    /\ input = in
    /\ template_string = s
    /\ data_dict = data
    /\ pc = at
    /\ index = 0
    /\ tokens = <<>>
    /\ pos = 0
    /\ nodes = ParserInit.nodes
    /\ stack = ParserInit.stack
    /\ expecting = ParserInit.expecting
    /\ error = NoError
    /\ output = <<>>
    /\ context = <<>>

StartState(in, s, data, at) ==
    /\ Fresh(in, s, data, at)
    /\ mappings = <<>>
    /\ calls = <<>>

\* Template strings over the characters of the tag delimiters
MaxLen == 5

LexChars == {"{", "}", "#", "%", "a"}

LexData == {<<>>, <<Item(<<"a">>, VInt(1))>>}

Init ==
    \E s \in SeqsUpTo(LexChars, MaxLen), data \in LexData :
        StartState([form |-> "chars"], s, data, "tokenize")

\* Templates that are sequences of well-formed tags, text and print tags
MaxTags == 4

TagPieces ==
    [if |-> <<"{", "%", "i", "f", " ", "x", "%", "}">>,
     for |-> <<"{", "%", " ", "f", "o", "r", " ", "v", " ", "i", "n", " ", "l", " ", "%", "}">>,
     else |-> <<"{", "%", "e", "l", "s", "e", "%", "}">>,
     endif |-> <<"{", "%", " ", "e", "n", "d", "i", "f", " ", "%", "}">>,
     endfor |-> <<"{", "%", "e", "n", "d", "f", "o", "r", "%", "}">>,
     text |-> <<"t">>,
     print |-> <<"{", "{", "x", "}", "}">>,
     comment |-> <<"{", "#", "c", "#", "}">>]

PieceNames == {"if", "for", "else", "endif", "endfor", "text", "print", "comment"}

TagData == {<<Item(Names.x, VInt(1)), Item(Names.l, VStr(<<"a", "b">>))>>}

InitTags ==
    \E parts \in SeqsUpTo(PieceNames, MaxTags), data \in TagData :
        StartState([form |-> "tags", parts |-> parts],
                   Concat([k \in 1..Len(parts) |-> TagPieces[parts[k]]]), data, "tokenize")

\* Templates that are one `if` or `for` instruction tag, [keyword][space]
\* [word][space][word][space][word], and the end word of its block
MaxPath == 3

PathTexts == SeqsUpTo({"x", "."}, MaxPath)

Spaces == {<<>>, <<" ">>}

InitInstruction ==
    \E kw \in {KwIf, KwFor}, s1 \in Spaces \cup {<<"\n", "\t">>}, w1 \in PathTexts,
       s2 \in Spaces, w2 \in {<<>>, <<"i", "n">>, <<"x">>}, s3 \in Spaces,
       w3 \in PathTexts, data \in TagData, plain \in BOOLEAN :
        LET text == kw \o s1 \o w1 \o s2 \o w2 \o s3 \o w3
            lead == IF plain THEN <<>> ELSE <<"{", "#", "c", "#", "}", "t">>
            body == IF plain THEN <<>> ELSE <<"{", "{", "x", "}", "}">>
        IN  StartState([form |-> "instruction", text |-> text],
                       lead \o <<"{", "%">> \o text \o <<"%", "}">> \o body
                           \o <<"{", "%">> \o Endword(kw) \o <<"%", "}">>,
                       data, "tokenize")

\* Templates that are one if block or one for block around fragments
MaxNest == 1

IfTag(path) == <<"{", "%", " ", "i", "f", " ">> \o path \o <<" ", "%", "}">>

ElseTag == <<"{", "%", " ", "e", "l", "s", "e", " ", "%", "}">>

EndifTag == <<"{", "%", " ", "e", "n", "d", "i", "f", " ", "%", "}">>

ForTag(var, path) ==
    <<"{", "%", "f", "o", "r", " ">> \o var \o <<" ", "i", "n", " ">> \o path \o <<"%", "}">>

EndforTag == <<"{", "%", "e", "n", "d", "f", "o", "r", "%", "}">>

PathD_K == <<"d", ".", "k">>

Leaves == {<<>>, <<"t">>, <<"{", "{", "x", "}", "}">>, <<"{", "{", " ", "v", " ", "}", "}">>}

RECURSIVE Fragments(_)
\* well-formed fragments with blocks nested up to n deep, none with an
\* `else` outside a block
Fragments(n) ==
    IF n = 0 THEN Leaves
    ELSE LET inner == Fragments(n - 1) \ {<<>>}
         IN  Leaves
             \cup {ForTag(Names.v, path) \o f \o EndforTag :
                     path \in {Names.l, AttrStack}, f \in inner \cup {<<"a">> \o ElseTag}}
             \cup {IfTag(Names.x) \o f \o g \o EndifTag :
                     f \in inner, g \in {<<>>, ElseTag \o <<"e">>}}

RenderPaths == {Names.x, Names.l, Names.k, PathD_K, AttrStack}

RenderData ==
    DataSet \cup {<<Item(AttrStack, VStr(<<"s">>)), Item(Names.x, VBool(TRUE))>>}

ElseParts ==
    { <<"e">>, <<"{", "{", " ", "v", " ", "}", "}">>,
      ForTag(Names.v, Names.l) \o <<"{", "{", " ", "v", " ", "}", "}">> \o EndforTag,
      <<"e">> \o ElseTag \o <<"f">> }

InitRender ==
    \/ \E path \in RenderPaths, first \in Fragments(MaxNest), data \in RenderData :
         \/ StartState([form |-> "if", path |-> path, var |-> <<>>, first |-> first,
                        else |-> FALSE, second |-> <<>>],
                       IfTag(path) \o first \o EndifTag, data, "start")
         \/ \E second \in ElseParts \cup {<<>>} :
              StartState([form |-> "if", path |-> path, var |-> <<>>, first |-> first,
                          else |-> TRUE, second |-> second],
                         IfTag(path) \o first \o ElseTag \o second \o EndifTag, data, "start")
    \/ \E path \in RenderPaths, var \in {Names.v, Names.x},
          first \in Fragments(MaxNest) \cup {<<"a">> \o ElseTag}, data \in RenderData :
         StartState([form |-> "for", path |-> path, var |-> var, first |-> first,
                     else |-> FALSE, second |-> <<>>],
                    ForTag(var, path) \o first \o EndforTag, data, "start")

NextRender ==
    \/ Compile
    \/ TemplateRenderCall

\* Two calls of Template.render on one compiled template
TwoCalls == {1, 2}

PrintTag(path) == <<"{", "{">> \o path \o <<"}", "}">>

PathX_K == <<"x", ".", "k">>

PathD_X_K == <<"d", ".", "x", ".", "k">>

AttrPush == <<"p", "u", "s", "h">>

CallTemplates ==
    { ForTag(Names.v, Names.l) \o PrintTag(Names.v) \o IfTag(Names.v) \o <<"t">> \o ElseTag
          \o <<"e">> \o EndifTag \o EndforTag \o PrintTag(Names.v),
      ForTag(Names.x, Names.l) \o ForTag(Names.v, Names.d) \o PrintTag(Names.x)
          \o PrintTag(PathD_K) \o EndforTag \o PrintTag(Names.v) \o EndforTag,
      PrintTag(PathD_K) \o PrintTag(PathX_K) \o PrintTag(PathD_X_K) \o PrintTag(Names.k)
          \o PrintTag(<<>>),
      ForTag(Names.v, AttrStack) \o PrintTag(Names.v) \o EndforTag,
      IfTag(AttrPush) \o PrintTag(AttrStack) \o EndifTag \o PrintTag(Names.x) }

InitCalls ==
    \E s \in CallTemplates, first \in DataSet, second \in DataSet, shared \in BOOLEAN :
        /\ Fresh([form |-> "calls",
                       mappings |-> IF shared THEN <<first>> ELSE <<first, second>>],
                  s, first, "start")
        /\ first # second
        /\ mappings = (IF shared THEN <<first>> ELSE <<first, second>>)
        /\ calls = <<IdleCall(1), IdleCall(IF shared THEN 1 ELSE 2)>>

NextCalls ==
    \/ Compile
    \/ \E r \in TwoCalls :
         \/ CallRender(r)
         \/ StepText(r)
         \/ StepPrint(r)
         \/ StepIf(r)
         \/ StepNode(r)
         \/ StepChild(r)
         \/ StepFor(r)
         \/ StepPush(r)
         \/ StepBind(r)
         \/ StepPop(r)
         \/ ReturnRender(r)

\* Calls of Template.render one after another on one compiled template
MaxRenders == 2

\* Template.render called once more on the compiled template, with any
\* data mapping; `mappings` and `calls` keep the arguments and the results
\* of the calls made so far
TemplateRenderNext ==
    /\ pc \in {"compiled", "done"}
    /\ Len(calls) < MaxRenders
    /\ \E data \in DataSet, address \in Addresses :
         LET r == TemplateRender(nodes, data)
         IN  /\ data_dict' = data
             /\ output' = AtAddress(r.out, address)
             /\ context' = r.stack
             /\ mappings' = Append(mappings, data)
             /\ calls' = Append(calls, [IdleCall(Len(mappings) + 1) EXCEPT
                                          !.state = "returned",
                                          !.out = AtAddress(r.out, address)])
    /\ pc' = "done"
    /\ UNCHANGED <<input, template_string, lexvars, parsevars, error>>

AttrLookup == <<"l", "o", "o", "k", "u", "p">>

SequenceTemplates ==
    { PrintTag(AttrPush) \o <<"t">>,
      IfTag(Names.x) \o PrintTag(AttrLookup) \o ElseTag \o PrintTag(Names.v) \o EndifTag,
      ForTag(Names.v, Names.l) \o PrintTag(Names.v) \o IfTag(Names.v) \o <<"t">> \o ElseTag
          \o <<"e">> \o EndifTag \o EndforTag \o PrintTag(Names.v),
      ForTag(Names.x, Names.d) \o PrintTag(Names.x) \o PrintTag(PathD_K) \o EndforTag
          \o PrintTag(PathX_K),
      ForTag(Names.v, AttrStack) \o PrintTag(Names.v) \o EndforTag \o PrintTag(AttrStack),
      <<"t">> \o ElseTag \o <<"{", "#", "c", "#", "}">> }

InitSequence ==
    \E s \in SequenceTemplates :
        StartState([form |-> "sequence"], s, <<>>, "start")

NextSequence ==
    \/ Compile
    \/ TemplateRenderNext

Next ==
    \/ ReadCommentTag
    \/ ReadPrintTag
    \/ ReadInstructionTag
    \/ ReadText
    \/ TokenizeReturn
    \/ ParseToken
    \/ ParseReturn
    \/ TemplateRenderCall

Spec == Init /\ [][Next]_vars

SpecTags == InitTags /\ [][Next]_vars

SpecInstruction == InitInstruction /\ [][Next]_vars

SpecRender == InitRender /\ [][NextRender]_vars

SpecCalls == InitCalls /\ [][NextCalls]_vars

SpecSequence == InitSequence /\ [][NextSequence]_vars

----------------------------------------------------------------------------
(* Claims about text, comments and unclosed tags (specification Spec) *)

\* whether the two characters `two` stand at position j (0-based) of s
TwoAt(s, two, j) == j >= 0 /\ j + 2 <= Len(s) /\ s[j + 1] = two[1] /\ s[j + 2] = two[2]

\* the positions at or after i where the closer `two` stands
ClosersFrom(s, two, i) == {j \in i..Len(s) : TwoAt(s, two, j)}

Least(set) == CHOOSE j \in set : \A m \in set : j <= m

RECURSIVE StripComments(_, _)
\* For a template made only of literal text and closed comment tags, from
\* position i on: the text with each comment tag (from `{#` through the first
\* `#}` after it) deleted.  ok is FALSE when the template is not of that
\* kind: a comment is left open, or a print or instruction opener stands
\* outside the comments.
StripComments(s, i) ==
    IF i >= Len(s) THEN [ok |-> TRUE, text |-> <<>>]
    ELSE IF TwoAt(s, <<"{", "#">>, i)
    THEN IF ClosersFrom(s, <<"#", "}">>, i + 2) = {}
         THEN [ok |-> FALSE, text |-> <<>>]
         ELSE StripComments(s, Least(ClosersFrom(s, <<"#", "}">>, i + 2)) + 2)
    ELSE IF TwoAt(s, <<"{", "{">>, i) \/ TwoAt(s, <<"{", "%">>, i)
    THEN [ok |-> FALSE, text |-> <<>>]
    ELSE LET rest == StripComments(s, i + 1)
         IN  [ok |-> rest.ok, text |-> <<s[i + 1]>> \o rest.text]

\* C1: a template made only of literal text and closed comment tags
\* compiles, and renders, against every data mapping, to itself with the
\* comment tags deleted.
C1_TextAndCommentsRenderToText ==
    LET r == StripComments(template_string, 0)
    IN  r.ok => /\ pc # "failed"
                /\ pc = "done" => output = r.text

\* C1 witness: a template with text and a comment has been rendered
C1_Witness ==
    /\ pc = "done"
    /\ StripComments(template_string, 0).ok
    /\ output # <<>>
    /\ output # template_string
    /\ data_dict # <<>>

TagKinds == {"comment", "print", "instruction"}

Opener(kind) ==
    IF kind = "comment" THEN <<"{", "#">>
    ELSE IF kind = "print" THEN <<"{", "{">> ELSE <<"{", "%">>

Closer(kind) ==
    IF kind = "comment" THEN <<"#", "}">>
    ELSE IF kind = "print" THEN <<"}", "}">> ELSE <<"%", "}">>

UnclosedTag(kind) ==
    TemplateError(IF kind = "comment" THEN "unclosed comment tag"
                  ELSE IF kind = "print" THEN "unclosed print tag"
                  ELSE "unclosed instruction tag", <<>>, <<>>)

\* C8: a step of tokenize that starts at an opener fails with the
\* unclosed-tag error of that tag kind when the closer stands nowhere at or
\* after the position behind the opener, and otherwise does not fail and
\* resumes right behind the first such closer; a step that starts at no
\* opener does not fail.
C8_UnclosedTagExactlyWhenNoCloser ==
    [][(pc = "tokenize" /\ index < Len(template_string)) =>
         /\ \A kind \in TagKinds :
              TwoAt(template_string, Opener(kind), index) =>
                LET closers == ClosersFrom(template_string, Closer(kind), index + 2)
                IN  IF closers = {}
                    THEN pc' = "failed" /\ error' = UnclosedTag(kind)
                    ELSE pc' = "tokenize" /\ error' = NoError
                         /\ index' = Least(closers) + 2
         /\ (\A kind \in TagKinds : ~TwoAt(template_string, Opener(kind), index))
              => error' = NoError
      ]_vars

\* C8 witness: a tag whose closer is the last two characters of the input
\* has been read, and tokenize goes on
C8_Witness ==
    /\ pc = "tokenize"
    /\ error = NoError
    /\ index = Len(template_string)
    /\ \E kind \in TagKinds :
         /\ TwoAt(template_string, Opener(kind), 0)
         /\ ClosersFrom(template_string, Closer(kind), 2) = {Len(template_string) - 2}

\* the first whitespace-delimited word of an instruction's text, <<>> when
\* there is none
FirstWord(text) ==
    LET starts == {i \in 1..Len(text) : text[i] \notin SpaceChars}
        a == Least(starts)
        stops == {i \in a..Len(text) : text[i] \in SpaceChars}
    IN  IF starts = {} THEN <<>>
        ELSE IF stops = {} THEN SubSeq(text, a, Len(text))
        ELSE SubSeq(text, a, Least(stops) - 1)

InstructionWords == {KwIf, KwElse, KwFor, KwEndif, KwEndfor}

\* C6: compiling fails with TemplateError or not at all, and an instruction
\* tag whose keyword is none of if, else, for, endif, endfor makes it fail
\* with the unknown-instruction TemplateError, whatever the tag's text.
C6_CompileFailsOnlyWithTemplateError ==
    /\ error.exc \in {"none", "TemplateError"}
    /\ \A k \in 1..pos :
         (tokens[k].type = "instruction" /\ FirstWord(tokens[k].text) \notin InstructionWords)
           => /\ pc = "failed"
              /\ error = TemplateError("illegal instruction", FirstWord(tokens[k].text), <<>>)

----------------------------------------------------------------------------
(* Claims about block nesting (specification SpecTags) *)

IsOpener(part) == part \in {"if", "for"}

IsCloser(part) == part \in {"endif", "endfor"}

CloserOf(part) == IF part = "if" THEN "endif" ELSE "endfor"

\* the block tags among the parts, in order
RECURSIVE BlockTags(_)
BlockTags(parts) ==
    IF parts = <<>> THEN <<>>
    ELSE (IF IsOpener(Head(parts)) \/ IsCloser(Head(parts)) THEN <<Head(parts)>> ELSE <<>>)
         \o BlockTags(Tail(parts))

RECURSIVE StillOpen(_)
\* The blocks a sequence of block tags leaves open, outermost first: delete
\* an opener with its own closer right behind it, until there is none.
StillOpen(tags) ==
    LET pairs == {i \in 1..Len(tags) - 1 :
                    IsOpener(tags[i]) /\ tags[i + 1] = CloserOf(tags[i])}
    IN  IF pairs = {} THEN tags
        ELSE LET i == Least(pairs)
             IN  StillOpen(SubSeq(tags, 1, i - 1) \o SubSeq(tags, i + 2, Len(tags)))

\* whether block tag k is a closer that does not close the innermost block
\* still open before it
Violates(tags, k) ==
    LET open == StillOpen(SubSeq(tags, 1, k - 1))
    IN  /\ IsCloser(tags[k])
        /\ open = <<>> \/ CloserOf(open[Len(open)]) # tags[k]

WordOf(part) == IF part = "endif" THEN KwEndif ELSE KwEndfor

\* the outcome the nesting rule gives a sequence of block tags
NestingError(tags) ==
    LET bad == {k \in 1..Len(tags) : Violates(tags, k)}
        k == Least(bad)
        before == StillOpen(SubSeq(tags, 1, k - 1))
        atEnd == StillOpen(tags)
    IN  IF bad # {}
        THEN IF before = <<>>
             THEN TemplateError("unexpected", WordOf(tags[k]), <<>>)
             ELSE TemplateError("expected, found",
                                WordOf(CloserOf(before[Len(before)])), WordOf(tags[k]))
        ELSE IF atEnd # <<>>
        THEN TemplateError("expecting", WordOf(CloserOf(atEnd[Len(atEnd)])), <<>>)
        ELSE NoError

\* C7: for a sequence of well-formed tags, text and print tags, parse
\* succeeds exactly when every closer closes the innermost open block, of
\* its kind, and no block is open at the end; else it fails at the first
\* violation with `unexpected`, `expected, found` or `expecting`.
C7_ParseSucceedsExactlyWhenBalanced ==
    pc \in {"compiled", "done", "failed"} => error = NestingError(BlockTags(input.parts))

\* C7 witness: a closer of the wrong kind has met a nested open block
C7_Witness ==
    /\ pc = "failed"
    /\ error = TemplateError("expected, found", KwEndfor, KwEndif)
    /\ Len(StillOpen(BlockTags(input.parts))) >= 3

----------------------------------------------------------------------------
(* Claims about the grammar of `if` and `for` tags (SpecInstruction) *)

\* a dotted path: one or more segments of word characters joined by single
\* dots, so no empty segment and no dot at either end
IsDottedPath(w) ==
    /\ Len(w) > 0
    /\ \A i \in 1..Len(w) : w[i] \in WordChars \cup {"."}
    /\ w[1] # "." /\ w[Len(w)] # "."
    /\ \A i \in 1..Len(w) - 1 : ~(w[i] = "." /\ w[i + 1] = ".")

IsIdentifier(w) == Len(w) > 0 /\ \A i \in 1..Len(w) : w[i] \in WordChars

IsSpace(w) == Len(w) > 0 /\ \A i \in 1..Len(w) : w[i] \in SpaceChars

\* `if <dotted-path>`
IsIfText(text) ==
    \E i \in 3..Len(text) :
        /\ SubSeq(text, 1, 2) = KwIf
        /\ IsSpace(SubSeq(text, 3, i))
        /\ IsDottedPath(SubSeq(text, i + 1, Len(text)))

\* `for <identifier> in <dotted-path>`
IsForText(text) ==
    \E i, j, m, n \in 4..Len(text) :
        /\ i < j /\ j + 1 < m /\ m + 1 < n /\ n <= Len(text)
        /\ SubSeq(text, 1, 3) = KwFor
        /\ IsSpace(SubSeq(text, 4, i))
        /\ IsIdentifier(SubSeq(text, i + 1, j))
        /\ IsSpace(SubSeq(text, j + 1, m - 1))
        /\ SubSeq(text, m, m + 1) = <<"i", "n">>
        /\ IsSpace(SubSeq(text, m + 2, n - 1))
        /\ IsDottedPath(SubSeq(text, n, Len(text)))

\* the text of a tag without the whitespace around it
Trimmed(text) ==
    LET inked == {i \in 1..Len(text) : text[i] \notin SpaceChars}
    IN  IF inked = {} THEN <<>>
        ELSE SubSeq(text, Least(inked), CHOOSE i \in inked : \A m \in inked : m <= i)

\* C9: an `if` tag compiles only when its text is `if <dotted-path>`, a
\* `for` tag only when its text is `for <identifier> in <dotted-path>`;
\* every other `if` or `for` tag text fails with the malformed-tag error.
C9_MalformedTagUnlessGrammar ==
    LET text == Trimmed(input.text)
    IN  (pc \in {"compiled", "done", "failed"} /\ FirstWord(text) \in {KwIf, KwFor}) =>
            IF FirstWord(text) = KwIf
            THEN IF IsIfText(text) THEN error = NoError
                 ELSE error = TemplateError("malformed {% if %} tag", <<>>, <<>>)
            ELSE IF IsForText(text) THEN error = NoError
                 ELSE error = TemplateError("malformed {% for %} tag", <<>>, <<>>)

----------------------------------------------------------------------------
(* Claims about if and for blocks (specification SpecRender) *)

\* the rendering of a fragment as a template of its own
FragmentNodes(fragment) == Parse(fragment).nodes

FragmentRender(fragment, layers) == Render(FragmentNodes(fragment), 1, layers).out

\* C3: an if block renders exactly the rendering of its first part when its
\* path resolves to a truthy value, and exactly the rendering of its else
\* part (nothing when it has none) when the path resolves to a falsy value
\* or to nothing.
C3_IfRendersSelectedBranchOnly ==
    (pc = "done" /\ input.form = "if") =>
        LET value == Lookup(<<data_dict>>, input.path)
        IN  output = IF Truthy(<<data_dict>>, value)
                     THEN FragmentRender(input.first, <<data_dict>>)
                     ELSE FragmentRender(input.second, <<data_dict>>)

\* C3 witness: the path is absent, both parts render to something, and the
\* else part alone was output
C3_Witness ==
    /\ pc = "done"
    /\ input.form = "if"
    /\ input.else
    /\ Lookup(<<data_dict>>, input.path) = VNone
    /\ FragmentRender(input.first, <<data_dict>>) # <<>>
    /\ output # <<>>
    /\ output = FragmentRender(input.second, <<data_dict>>)
    /\ output # FragmentRender(input.first, <<data_dict>>)

\* The elements of a collection in iteration order, `layers` being the
\* scope stack while the loop runs: the characters of a str, the elements of
\* a list, the keys of a dict; none for any other value.
Elements(layers, value) ==
    IF value.t = "str" THEN [i \in 1..Len(value.v) |-> VStr(<<value.v[i]>>)]
    ELSE IF value.t = "list" THEN value.v
    ELSE IF value.t = "dict" THEN [i \in 1..Len(value.v) |-> VStr(value.v[i].k)]
    ELSE IF value.t = "stack" THEN [i \in 1..Len(layers) |-> VLayer(i - 1)]
    ELSE <<>>

\* C4: a for block outputs one rendering of its body per element of the
\* collection its path resolves to, in iteration order, with the variable
\* bound to the element, and nothing when the path resolves to an empty
\* collection, to nothing or to a value that is not iterable.
C4_ForRendersBodyPerElement ==
    (pc = "done" /\ input.form = "for") =>
        LET elements == Elements(<<data_dict, <<>>>>, Lookup(<<data_dict>>, input.path))
        IN  output = Concat([i \in 1..Len(elements) |->
                               FragmentRender(input.first,
                                              <<data_dict, <<Item(input.var, elements[i])>>>>)])

\* C4 witness: a loop over a collection of two elements has rendered a body
\* that prints the variable
C4_Witness ==
    /\ pc = "done"
    /\ input.form = "for"
    /\ Len(Elements(<<data_dict, <<>>>>, Lookup(<<data_dict>>, input.path))) = 2
    /\ input.first = <<"{", "{", " ", "v", " ", "}", "}">>
    /\ input.var = Names.v
    /\ Len(output) = 2

ForNodes == {id \in 1..Len(nodes) : nodes[id].class = "ForNode"}

\* C5: rendering a for block leaves the scope stack as it was: the same
\* layers with the same bindings, the caller's mapping included, whatever is
\* nested in the block and whether the block is rendered on the caller's
\* mapping alone or under a layer that a loop around it has pushed.
C5_ForRestoresScopeStack ==
    pc = "done" =>
        /\ context = <<data_dict>>
        /\ \A id \in ForNodes :
             \A layers \in {<<data_dict>>,
                            <<data_dict, <<Item(nodes[id].var_name, VInt(5))>>>>,
                            <<data_dict, <<Item(Names.l, VStr(<<"y", "z">>))>>, <<>>>>} :
                /\ ForNodeRender(nodes, id, layers).stack = layers
                /\ \A name \in RenderPaths \cup {Names.v} :
                     Lookup(ForNodeRender(nodes, id, layers).stack, name)
                         = Lookup(layers, name)

\* C5 witness: a for block, with another nested in it, has run over a
\* collection with elements, its variable shadowing a name of the caller
C5_Witness ==
    /\ pc = "done"
    /\ input.form = "for"
    /\ Cardinality(ForNodes) >= 2
    /\ DictHas(data_dict, input.var)
    /\ Elements(<<data_dict, <<>>>>, Lookup(<<data_dict>>, input.path)) # <<>>
    /\ output # <<>>
    /\ context = <<data_dict>>

----------------------------------------------------------------------------
(* Claims about Context.lookup and interleaved calls of Template.render     *)
(* (specification SpecCalls)                                                *)

\* the scope layers that bind name
BoundIn(layers, name) == {i \in 1..Len(layers) : DictHas(layers[i], name)}

\* the most recently pushed of them
Innermost(set) == CHOOSE i \in set : \A j \in set : j <= i

\* a segment resolved on a value: by mapping key first, by attribute second
Member(value, name) ==
    IF value.t = "dict" /\ DictHas(value.v, name) THEN Found(DictGet(value.v, name))
    ELSE IF value.t = "object" /\ DictHas(value.v, name) THEN Found(DictGet(value.v, name))
    ELSE Missing

RECURSIVE ResolveRest(_, _, _)
ResolveRest(value, segs, k) ==
    IF k > Len(segs) THEN value
    ELSE LET m == Member(value, segs[k])
         IN  IF m.ok THEN ResolveRest(m.value, segs, k + 1) ELSE VNone

\* a dotted path resolved with its first segment looked for in the scope
\* layers only
ResolveInScope(layers, keystring) ==
    LET segs == Split(keystring)
        bound == BoundIn(layers, segs[1])
    IN  IF bound = {} THEN VNone
        ELSE ResolveRest(DictGet(layers[Innermost(bound)], segs[1]), segs, 2)

\* C2: every call of Context.lookup returns the value of its path resolved
\* with the first segment looked for in the scope layers only, most recently
\* pushed first, and each later segment on the value before it, by key first
\* and by attribute second; it returns None as soon as a segment is not
\* found, whatever the segment's name.
C2_LookupResolvesInScopeLayersOnly ==
    \A r \in 1..Len(calls) :
        calls[r].lookup.made =>
            calls[r].lookup.value = ResolveInScope(calls[r].lookup.stack, calls[r].lookup.keystring)

\* the output of a call of Template.render that runs alone on the compiled
\* template, against the mapping the caller passed
Alone(r) == TemplateRender(FragmentNodes(template_string), input.mappings[calls[r].arg]).out

\* C10: of two interleaved calls of Template.render on one compiled
\* template, each returns the output it returns when it runs alone, and
\* the node tree and the callers' data mappings stay as they were.
C10_InterleavedRendersIndependent ==
    pc = "compiled" =>
        /\ nodes = FragmentNodes(template_string)
        /\ mappings = input.mappings
        /\ \A r \in 1..Len(calls) : calls[r].state = "returned" => calls[r].out = Alone(r)

\* both calls have returned with output, they were given the same mapping
\* object, and one began while the other was in a for loop
C10_Witness ==
    /\ pc = "compiled"
    /\ Len(mappings) = 1
    /\ \A r \in 1..Len(calls) : calls[r].state = "returned" /\ calls[r].out # <<>>
    /\ \E r \in 1..Len(calls) : calls[r].inside

----------------------------------------------------------------------------
(* Claims about the finalized tree (specification SpecTags) *)

\* the nodes a node leads to when it is rendered: the two branches of a
\* conditional, the children of every other node
Below(tree, id) ==
    IF tree[id].class = "IfNode"
    THEN {tree[id].true_branch, tree[id].false_branch} \ {0}
    ELSE {tree[id].children[k] : k \in 1..Len(tree[id].children)}

RECURSIVE ReachFrom(_, _)
ReachFrom(tree, set) ==
    LET more == set \cup UNION {Below(tree, id) : id \in set}
    IN  IF more = set THEN set ELSE ReachFrom(tree, more)

\* the finalized tree: the nodes reachable from the root, node 1
Finalized(tree) == ReachFrom(tree, {1})

\* C11: the finalized tree of a template that compiles holds no else-marker
\* node, and each of its conditionals has a true branch and a false branch
\* that are containers, wherever the `else` tags stand.
C11_NoElseMarkerInFinalizedTree ==
    pc \in {"compiled", "done"} =>
        \A id \in Finalized(nodes) :
            /\ nodes[id].class # "ElseNode"
            /\ nodes[id].class = "IfNode" =>
                   /\ nodes[id].true_branch # nodes[id].false_branch
                   /\ nodes[nodes[id].true_branch].class = "Node"
                   /\ nodes[nodes[id].false_branch].class = "Node"

----------------------------------------------------------------------------
(* Claims about the branches of a conditional (specification SpecRender) *)

IsMarker(tree, id) == tree[id].class = "ElseNode"

\* the position of the first else marker among `children`, or one past the
\* end when there is none
FirstMarker(tree, children) ==
    LET at == {k \in 1..Len(children) : IsMarker(tree, children[k])}
    IN  IF at = {} THEN Len(children) + 1 ELSE Least(at)

RECURSIVE NonMarkers(_, _)
NonMarkers(tree, children) ==
    IF children = <<>> THEN <<>>
    ELSE IF IsMarker(tree, Head(children)) THEN NonMarkers(tree, Tail(children))
    ELSE <<Head(children)>> \o NonMarkers(tree, Tail(children))

\* the direct children of conditional id are split at the first marker
Partitioned(tree, id) ==
    LET children == tree[id].children
        m == FirstMarker(tree, children)
    IN  /\ tree[tree[id].true_branch].children = SubSeq(children, 1, m - 1)
        /\ tree[tree[id].false_branch].children
               = NonMarkers(tree, SubSeq(children, m + 1, Len(children)))

RECURSIVE Shape(_, _)
\* a subtree without its node ids
Shape(tree, id) ==
    [class |-> tree[id].class,
     text |-> tree[id].token.text,
     children |-> [k \in 1..Len(tree[id].children) |-> Shape(tree, tree[id].children[k])],
     branches |-> IF tree[id].class = "IfNode"
                  THEN <<Shape(tree, tree[id].true_branch), Shape(tree, tree[id].false_branch)>>
                  ELSE <<>>]

\* what a fragment compiles to on its own: the children of its root, else
\* markers left out
ShapesOf(fragment) ==
    LET tree == FragmentNodes(fragment)
        kept == NonMarkers(tree, tree[1].children)
    IN  [k \in 1..Len(kept) |-> Shape(tree, kept[k])]

\* C12: once the endif of an if block is reached, the block's direct children
\* before the first direct else marker are the true branch, in order, and its
\* non-marker children after it are the false branch, in order (all in the
\* true branch and none in the false branch without a marker); an else
\* inside a nested block does not split the enclosing if: the branches of
\* `{% if p %}A{% else %}B{% endif %}` hold what A and B compile to.
C12_ChildrenPartitionedAtFirstElse ==
    pc \in {"compiled", "done"} =>
        /\ \A id \in 1..Len(nodes) : nodes[id].class = "IfNode" => Partitioned(nodes, id)
        /\ input.form = "if" =>
               /\ Shape(nodes, nodes[2].true_branch).children = ShapesOf(input.first)
               /\ Shape(nodes, nodes[2].false_branch).children = ShapesOf(input.second)

\* an if block with an else part is compiled, an else marker is a direct
\* child of a block nested in its first part, and its else part holds a
\* second direct marker
C12_Witness ==
    /\ pc = "compiled"
    /\ input.form = "if"
    /\ input.else
    /\ \E id \in 3..Len(nodes), k \in 1..Len(nodes[2].children) :
         /\ nodes[2].children[k] = id
         /\ k < FirstMarker(nodes, nodes[2].children)
         /\ \E j \in 1..Len(nodes[id].children) : IsMarker(nodes, nodes[id].children[j])
    /\ Len(nodes[nodes[2].false_branch].children) = 2
    /\ Len(nodes[2].children) - FirstMarker(nodes, nodes[2].children) = 3

----------------------------------------------------------------------------
(* Claims about render calls made one after another (specification         *)
(* SpecSequence)                                                           *)

\* the outputs that rendering a fresh compile of the template string with
\* the data of call k can give
FreshOutputs(k) ==
    {AtAddress(TemplateRender(FragmentNodes(template_string), mappings[calls[k].arg]).out, a) :
         a \in Addresses}

\* C13: after any sequence of render calls on one compiled template the node
\* tree is what the compile made, and the output of each call is the output
\* of rendering a fresh compile of the template string with the call's data.
C13_RenderDependsOnTemplateAndData ==
    pc \in {"compiled", "done"} =>
        /\ nodes = FragmentNodes(template_string)
        /\ \A k \in 1..Len(calls) : FreshOutputs(k) = {calls[k].out}

----------------------------------------------------------------------------
(* Claims about the loop of a for block (specification SpecCalls) *)

\* call r is between two renderings of the body of a for block
AtLoopHead(r) ==
    /\ calls[r].state = "running"
    /\ calls[r].frames # <<>>
    /\ TopFrame(r).op = "for_iter"

\* C14: a for block renders its body once per element of the collection it
\* resolved before pushing its scope layer: the loop goes on exactly while
\* it has rendered the body fewer times than that collection had elements.
C14_BodyOncePerResolvedElement ==
    \A r \in 1..Len(calls) :
        AtLoopHead(r) =>
            (TopFrame(r).k < IterLen(StackOf(r), TopFrame(r).collection)
                 <=> TopFrame(r).k < TopFrame(r).size)

----------------------------------------------------------------------------
(* Claims about the stacks of Parser.parse (specification SpecTags) *)

\* the end keyword of the block a node opens
ClosedBy(node) ==
    IF node.class = "IfNode" THEN KwEndif
    ELSE IF node.class = "ForNode" THEN KwEndfor
    ELSE <<>>

\* the open-block stack and the expected-closer stack run in parallel
StacksParallel ==
    /\ Len(stack) = Len(expecting) + 1
    /\ stack[1] = 1
    /\ nodes[1].class = "Node"
    /\ \A i \in 1..Len(expecting) : expecting[i] = ClosedBy(nodes[stack[i + 1]])

\* a token that made a node: the node is the new last child of the block
\* that was innermost, and no other node that existed has changed
AppendedToInnermost ==
    Len(nodes') > Len(nodes) =>
        /\ nodes'[Top(stack)].children = Append(nodes[Top(stack)].children, Len(nodes) + 1)
        /\ nodes'[Top(stack)] = [nodes[Top(stack)] EXCEPT !.children = nodes'[Top(stack)].children]
        /\ \A id \in 1..Len(nodes) : id # Top(stack) => nodes'[id] = nodes[id]

\* C15: after every token Parser.parse has processed, the open-block stack
\* holds one more entry than the expected-closer stack, its bottom entry is
\* the root container, and the i-th expected closer is the end keyword of
\* the block at position i+1 of the open-block stack; every node made is
\* appended to the innermost open block, and parse returns the root.
C15_ParserStacksInvariant ==
    [][ /\ (pc = "parse" /\ pc' = "parse") => (StacksParallel' /\ AppendedToInnermost)
        /\ (pc = "parse" /\ pc' = "compiled") => (StacksParallel' /\ Top(stack') = 1)
      ]_vars

\* parse is inside a for block inside an if block, a leaf just appended to
\* the for block
C15_Witness ==
    /\ pc = "parse"
    /\ Len(stack) = 3
    /\ expecting = <<KwEndif, KwEndfor>>
    /\ nodes[stack[3]].children # <<>>
    /\ Top(nodes[stack[3]].children) = Len(nodes)

----------------------------------------------------------------------------
(* Claims about the cursor of Lexer.tokenize (specification Spec) *)

\* the kind of tag whose opener stands at position i, "text" when none does
KindAt(s, i) ==
    IF TwoAt(s, CommentOpen, i) THEN "comment"
    ELSE IF TwoAt(s, PrintOpen, i) THEN "print"
    ELSE IF TwoAt(s, InstructionOpen, i) THEN "instruction"
    ELSE "text"

\* the token an iteration emits when it moves the cursor from i to j: none
\* for a comment, the characters from i up to j for text, the stripped
\* characters between the delimiters for a print or instruction tag
Emitted(s, i, j) ==
    LET kind == KindAt(s, i)
    IN  IF kind = "comment" THEN <<>>
        ELSE IF kind = "text" THEN <<Token("text", SubSeq(s, i + 1, j))>>
        ELSE <<Token(kind, Strip(SubSeq(s, i + 3, j - 2)))>>

\* C16: during tokenize the cursor stays within 0..len(input); every
\* iteration of the tokenize loop either raises TemplateError or strictly
\* increases the cursor; the tokens an iteration emits come from the
\* characters the cursor passed, after the tokens emitted before, and every
\* text token emitted is non-empty.
C16_CursorAdvancesOrRaises ==
    [][ (pc = "tokenize" /\ index < Len(template_string)) =>
            /\ 0 <= index' /\ index' <= Len(template_string)
            /\ \/ pc' = "failed" /\ error'.exc = "TemplateError"
               \/ /\ pc' = "tokenize"
                  /\ index' > index
                  /\ tokens' = tokens \o Emitted(template_string, index, index')
                  /\ \A k \in 1..Len(tokens') :
                       tokens'[k].type = "text" => tokens'[k].text # <<>>
      ]_vars

\* tokenize has reached the end of an input that holds a tag and then text:
\* two tokens emitted, the text token after the tag's
C16_Witness ==
    /\ pc = "tokenize"
    /\ index = Len(template_string)
    /\ Len(tokens) = 2
    /\ tokens[1].type # "text"
    /\ tokens[2].type = "text"

============================================================================
